---- MODULE Spec2Model ----
(***************************************************************************)
(* Model of the serialized memento pattern                                 *)
(* (Behavioural_Patterns/Memento_Patterns/serialized_memento_pattern.py):  *)
(* one Originator (the managed state container, `doc`), the nested         *)
(* Originators it references, one Caretaker (the history manager) and the  *)
(* pickle files of the caretaker's directory.                              *)
(*                                                                         *)
(* A Python object is a record [d, ro, link]:                              *)
(*   d    the public part of __dict__, in insertion order, as a sequence   *)
(*        of [k |-> name, v |-> value];                                    *)
(*   ro   the set _Originator__readonly;                                   *)
(*   link what _Originator__caretaker refers to: "none" (None), "manager"  *)
(*        (the Caretaker of this model) or "copy" (a deep copy of a        *)
(*        Caretaker, bound to a deep copy of an Originator; nothing such a *)
(*        copy does reaches doc or the Caretaker).                         *)
(* A value is [t |-> "int", v |-> n], a reference to a live nested         *)
(* Originator [t |-> "obj", v |-> id] (its fields are heap[id]), or, inside*)
(* a snapshot, a detached nested Originator [t |-> "tree", v |-> record].  *)
(* Inputs may also be [t |-> "ro", v |-> n] (Readonly(n)) and              *)
(* [t |-> "new", v |-> record] (an Originator the caller just built).      *)
(***************************************************************************)
EXTENDS Integers, Sequences, FiniteSets, TLC

VARIABLES client, doc, heap, ext, history, cursor, labels, label_counter,
          disk, last

\* What the client got from its last call of get_snapshot on a memento of
\* the history: [of |-> the position of that memento in _history (0 when
\* the client made no such call), obj |-> the object returned].
VARIABLE snap

\* The classic variant (classic_memento_pattern.py): its Originator, as
\* [d, ro, slot] (the entries of __dict__ other than "_readonly"; what
\* __dict__["_readonly"] holds: slot.t = "set" when it is the set of
\* readonly names, which is ro, slot.t = "missing" when the key is gone,
\* otherwise slot is the value stored there and ro is empty), and the two
\* stacks of its Caretaker.
VARIABLES originator, undo_stack, redo_stack

classic == <<originator, undo_stack, redo_stack>>

serialized == <<client, doc, heap, ext, history, cursor, labels,
                label_counter, disk>>

\* Threads that call the Caretaker of the serialized variant: the holder of
\* the lock the callers share ("free" when nobody holds it) and, for each
\* thread, the frame of the call it is in.
VARIABLES mutex, frames

guard == <<mutex, frames>>

\* The singleton metaclass (singleton_metaclass_Pattern.py) with one class
\* that uses it: what _locks[cls] holds (0: no entry, otherwise the id of a
\* Lock object), the holder of every Lock object, what _singleton[cls] holds
\* (0: no entry, otherwise the id of an instance), the number of instances
\* constructed so far, and for each thread the frame of its call cls().
VARIABLES locks, holder, singleton, constructed, calls

meta == <<locks, holder, singleton, constructed, calls>>

vars == <<client, doc, heap, ext, history, cursor, labels, label_counter,
          disk, last, snap, originator, undo_stack, redo_stack, mutex, frames,
          locks, holder, singleton, constructed, calls>>

\* Bound on len(_history) for the "simple" client; the other clients get one
\* entry less.  Every appending operation is guarded by HistBound.
MaxHist == 3

HistBound == IF client = "simple" THEN MaxHist ELSE MaxHist - 1

Scalar(n) == [t |-> "int", v |-> n]
Ref(id) == [t |-> "obj", v |-> id]
Tree(c) == [t |-> "tree", v |-> c]
Readonly(n) == [t |-> "ro", v |-> n]
NewObj(c) == [t |-> "new", v |-> c]
KV(k, v) == [k |-> k, v |-> v]

\* __dict__["_readonly"] of a classic Originator holding its set, and the
\* key being absent.
SetSlot == [t |-> "set", v |-> 0]
NoSlot == [t |-> "missing", v |-> 0]

ObjOrder == <<"o1", "o2", "o3">>
ObjIds == {ObjOrder[i] : i \in DOMAIN ObjOrder}
NoRef == "null"
FreeCell == [d |-> <<>>, ro |-> {}, link |-> "free"]

\* The file names the client saves under, the directory of the Caretaker
\* (the default of __init__), and the paths save_to_disk builds from them:
\* f"{filename}.pickle" (line 253) under the directory (line 256).
Files == {"f1"}
Directory == "mementos"
PickleName(filename) == filename \o ".pickle"
PathOf(filename) == [dir |-> Directory, name |-> PickleName(filename)]
Paths == {PathOf(f) : f \in Files}
NoPath == [dir |-> "", name |-> ""]
NoFile == [kind |-> "absent", m |-> FreeCell]

----------------------------------------------------------------------------
(* Python dict operations on the insertion-ordered sequence of pairs. *)

DictHas(d, k) == \E i \in DOMAIN d : d[i].k = k

DictGet(d, k) == d[CHOOSE i \in DOMAIN d : d[i].k = k].v

DictSet(d, k, v) ==
    IF DictHas(d, k)
    THEN [i \in DOMAIN d |-> IF d[i].k = k THEN KV(k, v) ELSE d[i]]
    ELSE Append(d, KV(k, v))

DictKeys(d) == {d[i].k : i \in DOMAIN d}

\* The ids of the nested Originators a container references.
RefsOf(c) == {c.d[i].v.v : i \in {j \in DOMAIN c.d : c.d[j].v.t = "obj"}}

\* A new object is distinct from every object in `used`.
FreshId(used) ==
    ObjOrder[CHOOSE i \in DOMAIN ObjOrder :
                /\ ObjOrder[i] \notin used
                /\ \A j \in 1..(i - 1) : ObjOrder[j] \in used]

\* Reference counting: an object nobody references is freed.
Collect(h, c, e) ==
    [id \in ObjIds |-> IF id \in RefsOf(c) \cup {e} THEN h[id] ELSE FreeCell]

----------------------------------------------------------------------------
(* Originator *)

\* Originator.__setattr__ (lines 56-66).
Originator_setattr(c, key, value) ==
    IF DictHas(c.d, "_readonly") /\ key \in c.ro
    THEN [c |-> c, err |-> "AttributeError"]
    ELSE IF value.t = "ro"
         THEN [c |-> [c EXCEPT !.ro = @ \cup {key},
                               !.d = DictSet(@, key, Scalar(value.v))],
               err |-> "ok"]
         ELSE [c |-> [c EXCEPT !.d = DictSet(@, key, value)], err |-> "ok"]

\* The loop `for key, value in kwargs.items(): setattr(self, key, value)`
\* of __init__ and set_state; it stops at the first exception.
RECURSIVE SetAll(_, _, _)
SetAll(c, kwargs, i) ==
    IF i > Len(kwargs) THEN [c |-> c, err |-> "ok"]
    ELSE LET s == Originator_setattr(c, kwargs[i].k, kwargs[i].v)
         IN  IF s.err # "ok" THEN s ELSE SetAll(s.c, kwargs, i + 1)

\* Originator.__init__ (lines 68-74) of an Originator without caretaker.
Originator_init(kwargs) ==
    SetAll([d |-> <<>>, ro |-> {}, link |-> "none"], kwargs, 1).c

\* The caller's evaluation of the arguments: every Originator(...) among
\* the values is built (a new object on the heap) before the call.
RECURSIVE Construct(_, _, _, _)
Construct(kwargs, i, h, used) ==
    IF i > Len(kwargs) THEN [kw |-> kwargs, h |-> h]
    ELSE IF kwargs[i].v.t = "new"
         THEN LET id == FreshId(used)
              IN  Construct([kwargs EXCEPT ![i].v = Ref(id)], i + 1,
                            [h EXCEPT ![id] = kwargs[i].v.v], used \cup {id})
         ELSE Construct(kwargs, i + 1, h, used)

\* copy.deepcopy of an Originator: nested Originators are copied into the
\* value, and the caretaker it references is copied with it.
DeepCopy(c, h) ==
    [d |-> [i \in DOMAIN c.d |->
               IF c.d[i].v.t = "obj"
               THEN KV(c.d[i].k, Tree(h[c.d[i].v.v]))
               ELSE c.d[i]],
     ro |-> c.ro,
     link |-> IF c.link = "none" THEN "none" ELSE "copy"]

\* The entries of a live container's __dict__ other than the two private
\* ones (_Originator__caretaker, _Originator__readonly), nested Originators
\* by value.  An attribute named `_readonly` is one of them (__str__ does
\* not show it).
Attrs(c, h) == {<<e.k, e.v>> : e \in {DeepCopy(c, h).d[i] : i \in DOMAIN c.d}}

\* The same entries of the __dict__ of a snapshot.
SnapAttrs(s) == {<<s.d[i].k, s.d[i].v>> : i \in DOMAIN s.d}

\* An object a call returns: `state` is its value; `fresh` tells whether it
\* is a new object (TRUE) or the very object the callee holds (FALSE), in
\* which case what the caller does to it is done to the callee's object.
\* get_snapshot with `return self._state`: the caller gets the stored object.
get_snapshot_same_object(memento) == [fresh |-> FALSE, state |-> memento]

\* Memento.get_snapshot (lines 28-30): copy.deepcopy(self._state), a new
\* object (with new nested objects) whose value is that of the stored one.
get_snapshot(memento) == [fresh |-> TRUE, state |-> memento]

\* The client holds no result of get_snapshot.
NoSnap == [of |-> 0, obj |-> [fresh |-> TRUE, state |-> FreeCell]]

\* What a consumer reads from a stored memento when the heap is h: the
\* snapshot with every nested Originator it reaches taken by value.
Materialized(memento, h) == SnapAttrs(DeepCopy(get_snapshot(memento).state, h))

\* create_memento with copy.copy instead of copy.deepcopy: the memento
\* references the nested Originators of the container.
create_memento_shallow(c, h) ==
    [d |-> c.d, ro |-> c.ro,
     link |-> IF c.link = "none" THEN "none" ELSE "copy"]

\* Originator.create_memento (lines 132-134).
create_memento(c, h) == DeepCopy(c, h)

\* _recursive_restore (lines 139-150): every snapshot entry is assigned to
\* the target with setattr; the branch for an Originator met under a name at
\* which the target holds an Originator calls the undefined name
\* recursive_restore.
RECURSIVE recursive_restore(_, _, _, _, _)
recursive_restore(snapshot, i, target, h, used) ==
    IF i > Len(snapshot.d) THEN [c |-> target, h |-> h, err |-> "ok"]
    ELSE LET key == snapshot.d[i].k
             value == snapshot.d[i].v
         IN  IF /\ value.t = "tree"
                /\ DictHas(target.d, key)
                /\ DictGet(target.d, key).t = "obj"
             THEN [c |-> target, h |-> h, err |-> "NameError"]
             ELSE LET id == FreshId(used)
                      nv == IF value.t = "tree" THEN Ref(id) ELSE value
                      h2 == IF value.t = "tree"
                            THEN [h EXCEPT ![id] = value.v] ELSE h
                      u2 == IF value.t = "tree" THEN used \cup {id} ELSE used
                      s == Originator_setattr(target, key, nv)
                  IN  IF s.err # "ok"
                      THEN [c |-> s.c, h |-> h, err |-> s.err]
                      ELSE recursive_restore(snapshot, i + 1, s.c, h2, u2)

\* What `self.__dict__.clear()` (line 152) leaves, followed by the first two
\* snapshot entries (_Originator__caretaker, _Originator__readonly), which
\* setattr never refuses because no `_readonly` attribute exists yet.
ClearedThenPrivate(c, snapshot) ==
    [d |-> <<>>, ro |-> snapshot.ro, link |-> snapshot.link]

\* Originator.restore_memento (lines 136-154).
restore_memento(memento, c, h, e) ==
    LET snapshot == get_snapshot(memento).state
    IN  recursive_restore(snapshot, 1, ClearedThenPrivate(c, snapshot), h,
                          RefsOf(c) \cup {e})

----------------------------------------------------------------------------
(* Caretaker *)

Mgr == [history |-> history, cursor |-> cursor, labels |-> labels,
        label_counter |-> label_counter]

SetMgr(m) ==
    /\ history' = m.history
    /\ cursor' = m.cursor
    /\ labels' = m.labels
    /\ label_counter' = m.label_counter

\* _generate_label that numbers the label without storing the new counter.
generate_label_counter_kept(m, description, arg) ==
    [m |-> m,
     label |-> [num |-> m.label_counter + 1, desc |-> description, arg |-> arg]]

\* Caretaker._generate_label (lines 208-215): the counter is incremented
\* and becomes the number of the label; the timestamp is left out.
generate_label(m, description, arg) ==
    [m |-> [m EXCEPT !.label_counter = @ + 1],
     label |-> [num |-> m.label_counter + 1, desc |-> description, arg |-> arg]]

\* checkpoint with the cursor set to len(history) instead of len(history) - 1.
checkpoint_cursor_past_end(m, c, h, description) ==
    LET memento == create_memento(c, h)
        m1 == [m EXCEPT !.history = Append(@, memento)]
        g == generate_label(m1, description, "")
        m2 == [g.m EXCEPT !.labels = Append(@, g.label)]
    IN  [m2 EXCEPT !.cursor = Len(m2.history)]

\* checkpoint as a conventional undo stack: the entries beyond the cursor
\* are dropped before the new one is appended.
checkpoint_truncating(m, c, h, description) ==
    LET memento == create_memento(c, h)
        m1 == [m EXCEPT !.history = Append(SubSeq(@, 1, m.cursor + 1), memento)]
        g == generate_label(m1, description, "")
        m2 == [g.m EXCEPT !.labels =
                              Append(SubSeq(@, 1, m.cursor + 1), g.label)]
    IN  [m2 EXCEPT !.cursor = Len(m2.history) - 1]

\* checkpoint that appends the entry at the cursor again instead of
\* capturing the container.
checkpoint_stale(m, c, h, description) ==
    LET memento == m.history[m.cursor + 1]
        m1 == [m EXCEPT !.history = Append(@, memento)]
        g == generate_label(m1, description, "")
        m2 == [g.m EXCEPT !.labels = Append(@, g.label)]
    IN  [m2 EXCEPT !.cursor = Len(m2.history) - 1]

\* Caretaker.checkpoint (lines 225-231).
checkpoint(m, c, h, description) ==
    LET memento == create_memento(c, h)
        m1 == [m EXCEPT !.history = Append(@, memento)]
        g == generate_label(m1, description, "")
        m2 == [g.m EXCEPT !.labels = Append(@, g.label)]
    IN  [m2 EXCEPT !.cursor = Len(m2.history) - 1]

\* The call `self.__caretaker.checkpoint(...)` of set_state / delete_state:
\* it reaches this Caretaker only if the container still references it.
AutoCheckpoint(m, c, h, description) ==
    IF c.link = "manager" THEN checkpoint(m, c, h, description) ELSE m

\* pickle.dump / pickle.load of a Memento (lines 263-264 and 271-272): the
\* file holds the serialized object graph of the memento.
\* pickle.dump that writes the memento of an object without attributes.
pickle_dump_empty(memento) ==
    [kind |-> "pickle", m |-> [memento EXCEPT !.d = <<>>]]

pickle_dump(memento) == [kind |-> "pickle", m |-> memento]

pickle_load(file) == file.m

\* What a failed write can leave at the path: the old content (open()
\* failed), an empty file (open(..., "wb") succeeded, dump wrote nothing),
\* the 2-byte protocol header alone (dump failed right after it: kind
\* "header") or a pickle cut at any other length (kind "truncated").
FailedWrite(old) ==
    {old, [kind |-> "empty", m |-> FreeCell],
     [kind |-> "header", m |-> FreeCell],
     [kind |-> "truncated", m |-> FreeCell]}

\* What pickle.load raises on a file that is not a complete pickle:
\* EOFError when the stream ends where an opcode is expected (no data at
\* all, or the complete protocol header and nothing after it),
\* UnpicklingError when the data is cut anywhere else.
LoadError(file) ==
    IF file.kind \in {"empty", "header"} THEN "EOFError" ELSE "UnpicklingError"

----------------------------------------------------------------------------
(* Inputs *)

Child(n) == Originator_init(<<KV("value", Scalar(n))>>)

\* The client programs that drive the pair: "simple" edits scalar
\* attributes (simple_originator_test), "nested" replaces and edits a
\* nested container (nested_originator_test, nest_test_b), "readonly"
\* works with Readonly(...) values.
Clients == {"simple", "nested", "readonly"}

\* The keyword arguments of the Originator(...) the Caretaker is built for.
InitKwargs(cl) ==
    CASE cl = "simple" -> { <<KV("a", Scalar(1))>> }
      [] cl = "nested" -> { <<KV("child", NewObj(Child(1)))>> }
      [] cl = "readonly" -> { <<KV("_readonly", Scalar(1))>>,
                              <<KV("b", Readonly(1))>> }

\* The keyword arguments of set_state calls on the managed container.
StateKwargs(cl) ==
    CASE cl = "simple" -> { <<KV("a", Scalar(1))>>,
                            <<KV("a", Scalar(2)), KV("b", Scalar(2))>> }
      [] cl = "nested" -> { <<KV("child", NewObj(Child(2)))>> }
      [] cl = "readonly" -> { <<KV("b", Scalar(2))>>,
                              <<KV("_readonly", Scalar(1))>> }

\* The keyword arguments of set_state calls on a nested container.
ChildKwargs(cl) ==
    CASE cl = "nested" -> { <<KV("value", Scalar(1))>>, <<KV("value", Scalar(2))>> }
      [] OTHER -> {}

\* The arguments of delete_state calls.
DeleteArgs(cl) ==
    CASE cl = "simple" -> { <<"b", "missing">> }
      [] cl = "nested" -> { <<"child">> }
      [] cl = "readonly" -> { <<"b">>, <<"_readonly">> }

\* The (name, value) pairs of plain attribute assignments.
AssignArgs(cl) ==
    CASE cl = "simple" -> { KV("a", Scalar(2)) }
      [] cl = "nested" -> {}
      [] cl = "readonly" -> { KV("b", Readonly(2)) }

\* The threads of the client and the frame of a thread that is in no call.
Threads == {"t1", "t2"}

NoEntry ==
    [m |-> [history |-> <<>>, cursor |-> 0, labels |-> <<>>,
            label_counter |-> 0],
     c |-> FreeCell, h |-> [id \in ObjIds |-> FreeCell]]

Idle == [pc |-> "idle", op |-> "none", memento |-> FreeCell, res |-> "ok",
         i |-> 0, entry |-> NoEntry]

\* The Lock objects the threads can create, at most one each, numbered in
\* the order of their creation.
LockIds == 1 .. Cardinality(Threads)

\* A thread outside cls(): `n` counts the calls it has made, `rets` holds
\* the instances its calls have returned.
NoCall == [pc |-> "idle", lk |-> 0, obj |-> 0, n |-> 0, rets |-> {}]

\* Lines 13-14: `_singleton = {}` and `_locks = {}`; no call made yet.
InitMeta ==
    /\ locks = 0
    /\ holder = [l \in LockIds |-> "free"]
    /\ singleton = 0
    /\ constructed = 0
    /\ calls = [t \in Threads |-> NoCall]

----------------------------------------------------------------------------
(* The state after doc = Originator(kwargs); caretaker = Caretaker(doc) *)

\* Caretaker.__init__ that labels the first entry without a description.
Caretaker_init_undescribed(c, h) ==
    LET m0 == [history |-> <<>>, cursor |-> 0, labels |-> <<>>,
               label_counter |-> 0]
        c1 == [c EXCEPT !.link = "manager"]
        m1 == [m0 EXCEPT !.history = Append(@, create_memento(c1, h))]
        g == generate_label(m1, "None", "")
    IN  [c |-> c1, m |-> [g.m EXCEPT !.labels = Append(@, g.label)]]

\* Caretaker.__init__ (lines 187-205).
Caretaker_init(c, h) ==
    LET m0 == [history |-> <<>>, cursor |-> 0, labels |-> <<>>,
               label_counter |-> 0]
        c1 == [c EXCEPT !.link = "manager"]
        m1 == [m0 EXCEPT !.history = Append(@, create_memento(c1, h))]
        g == generate_label(m1, "Initial State", "")
    IN  [c |-> c1, m |-> [g.m EXCEPT !.labels = Append(@, g.label)]]

Init ==
    \E cl \in Clients : \E kwargs \in InitKwargs(cl) :
        LET built == Construct(kwargs, 1, [id \in ObjIds |-> FreeCell], {})
            c == Originator_init(built.kw)
            r == Caretaker_init(c, built.h)
        IN  /\ client = cl
            /\ doc = r.c
            /\ heap = built.h
            /\ ext = NoRef
            /\ history = r.m.history
            /\ cursor = r.m.cursor
            /\ labels = r.m.labels
            /\ label_counter = r.m.label_counter
            /\ disk = [f \in Paths |-> NoFile]
            /\ last = [op |-> "init", res |-> "ok", names |-> {}, path |-> NoPath]
            /\ snap = NoSnap
            /\ originator = [d |-> <<>>, ro |-> {}, slot |-> SetSlot]
            /\ undo_stack = <<>>
            /\ redo_stack = <<>>
            /\ mutex = "free"
            /\ frames = [t \in Threads |-> Idle]
            /\ InitMeta

----------------------------------------------------------------------------
(* Operations of the client on the container *)

\* doc.name = value: Originator.__setattr__ alone, no checkpoint.
Assign(kv) ==
    LET r == Originator_setattr(doc, kv.k, kv.v)
    IN  /\ doc' = r.c
        /\ heap' = Collect(heap, r.c, ext)
        /\ last' = [op |-> "setattr", res |-> r.err, names |-> {kv.k}, path |-> NoPath]
        /\ UNCHANGED <<meta, snap, classic, guard, client, ext, history, cursor, labels, label_counter, disk>>

\* set_state that checkpoints in a `finally`: also when an assignment raised.
SetState_checkpoint_always(kwargs) ==
    LET built == Construct(kwargs, 1, heap, RefsOf(doc) \cup {ext})
        r == SetAll(doc, built.kw, 1)
        m == AutoCheckpoint(Mgr, r.c, built.h, "Updated")
    IN  /\ Len(m.history) <= HistBound
        /\ doc' = r.c
        /\ heap' = Collect(built.h, r.c, ext)
        /\ SetMgr(m)
        /\ last' = [op |-> "set_state", res |-> r.err,
                    names |-> DictKeys(kwargs), path |-> NoPath]
        /\ UNCHANGED <<meta, snap, classic, guard, client, ext, disk>>

\* Originator.set_state (lines 84-93) on the managed container.
SetState(kwargs) ==
    LET built == Construct(kwargs, 1, heap, RefsOf(doc) \cup {ext})
        r == SetAll(doc, built.kw, 1)
        m == IF r.err = "ok"
             THEN AutoCheckpoint(Mgr, r.c, built.h, "Updated")
             ELSE Mgr
    IN  /\ Len(m.history) <= HistBound
        /\ doc' = r.c
        /\ heap' = Collect(built.h, r.c, ext)
        /\ SetMgr(m)
        /\ last' = [op |-> "set_state", res |-> r.err,
                    names |-> DictKeys(kwargs), path |-> NoPath]
        /\ UNCHANGED <<meta, snap, classic, guard, client, ext, disk>>

\* The body of Originator.delete_state (lines 95-102): the requested names
\* the object has are removed with delattr, which checks nothing.
delete_state(c, args) ==
    LET deleted_attributes == {args[i] : i \in DOMAIN args} \cap DictKeys(c.d)
    IN  [c |-> [c EXCEPT !.d = SelectSeq(@, LAMBDA e :
                                            e.k \notin deleted_attributes)],
         deleted |-> deleted_attributes]

\* Originator.delete_state (lines 95-112) on the managed container.
DeleteState(args) ==
    LET r == delete_state(doc, args)
        m == IF r.deleted # {}
             THEN AutoCheckpoint(Mgr, r.c, heap, "Deleted")
             ELSE Mgr
    IN  /\ Len(m.history) <= HistBound
        /\ doc' = r.c
        /\ heap' = Collect(heap, r.c, ext)
        /\ SetMgr(m)
        /\ last' = [op |-> "delete_state", res |-> "ok",
                    names |-> {args[i] : i \in DOMAIN args}, path |-> NoPath]
        /\ UNCHANGED <<meta, snap, classic, guard, client, ext, disk>>

\* held = doc.child: the client keeps a reference to the nested container;
\* the object it held before is freed when nothing else references it.
TakeRef ==
    /\ DictHas(doc.d, "child")
    /\ DictGet(doc.d, "child").t = "obj"
    /\ ext' = DictGet(doc.d, "child").v
    /\ heap' = Collect(heap, doc, ext')
    /\ last' = [op |-> "take_ref", res |-> "ok", names |-> {}, path |-> NoPath]
    /\ UNCHANGED <<meta, snap, classic, guard, client, doc, history, cursor, labels,
                   label_counter, disk>>

\* Originator.set_state (lines 84-93) on a nested container, reached as
\* doc.child or through the reference the client kept.
ChildSetState(id, kwargs) ==
    LET r == SetAll(heap[id], kwargs, 1)
        h2 == [heap EXCEPT ![id] = r.c]
        m == IF r.err = "ok" /\ r.c.link = "manager"
             THEN checkpoint(Mgr, doc, h2, "Updated")
             ELSE Mgr
    IN  /\ id \in RefsOf(doc) \cup ({ext} \ {NoRef})
        /\ Len(m.history) <= HistBound
        /\ heap' = h2
        /\ SetMgr(m)
        /\ last' = [op |-> "child_set_state", res |-> r.err,
                    names |-> DictKeys(kwargs), path |-> NoPath]
        /\ UNCHANGED <<meta, snap, classic, guard, client, doc, ext, disk>>

----------------------------------------------------------------------------
(* Operations of the client on the Caretaker *)

\* caretaker.checkpoint() (lines 225-231).
Checkpoint ==
    /\ Len(history) < HistBound
    /\ SetMgr(checkpoint(Mgr, doc, heap, "None"))
    /\ last' = [op |-> "checkpoint", res |-> "ok", names |-> {}, path |-> NoPath]
    /\ UNCHANGED <<meta, snap, classic, guard, client, doc, heap, ext, disk>>

\* undo that returns silently at the oldest entry instead of raising.
undo_silent_at_start(m, c, h, e) ==
    IF m.cursor = 0
    THEN [m |-> m, c |-> c, h |-> h, res |-> "ok"]
    ELSE LET m1 == [m EXCEPT !.cursor = @ - 1]
             memento == m1.history[m1.cursor + 1]
             r == restore_memento(memento, c, h, e)
         IN  [m |-> m1, c |-> r.c, h |-> Collect(r.h, r.c, e), res |-> r.err]

\* undo as a pop: the entry the cursor leaves is removed with its label.
undo_popping(m, c, h, e) ==
    IF m.cursor = 0
    THEN [m |-> m, c |-> c, h |-> h, res |-> "ValueError"]
    ELSE LET m1 == [m EXCEPT !.cursor = @ - 1,
                             !.history = SubSeq(@, 1, Len(@) - 1),
                             !.labels = SubSeq(@, 1, Len(@) - 1)]
             memento == m1.history[m1.cursor + 1]
             r == restore_memento(memento, c, h, e)
         IN  [m |-> m1, c |-> r.c, h |-> Collect(r.h, r.c, e), res |-> r.err]

\* Caretaker.undo (lines 233-240).
undo(m, c, h, e) ==
    IF m.cursor = 0
    THEN [m |-> m, c |-> c, h |-> h, res |-> "ValueError"]
    ELSE LET m1 == [m EXCEPT !.cursor = @ - 1]
             memento == m1.history[m1.cursor + 1]
             r == restore_memento(memento, c, h, e)
         IN  [m |-> m1, c |-> r.c, h |-> Collect(r.h, r.c, e), res |-> r.err]

\* redo that jumps to the newest entry instead of the next one.
redo_to_end(m, c, h, e) ==
    IF m.cursor >= Len(m.history) - 1
    THEN [m |-> m, c |-> c, h |-> h, res |-> "ValueError"]
    ELSE LET m1 == [m EXCEPT !.cursor = Len(m.history) - 1]
             memento == m1.history[m1.cursor + 1]
             r == restore_memento(memento, c, h, e)
         IN  [m |-> m1, c |-> r.c, h |-> Collect(r.h, r.c, e), res |-> r.err]

\* Caretaker.redo (lines 242-249).
redo(m, c, h, e) ==
    IF m.cursor >= Len(m.history) - 1
    THEN [m |-> m, c |-> c, h |-> h, res |-> "ValueError"]
    ELSE LET m1 == [m EXCEPT !.cursor = @ + 1]
             memento == m1.history[m1.cursor + 1]
             r == restore_memento(memento, c, h, e)
         IN  [m |-> m1, c |-> r.c, h |-> Collect(r.h, r.c, e), res |-> r.err]

\* caretaker.undo()
Undo ==
    LET r == undo(Mgr, doc, heap, ext)
    IN  /\ SetMgr(r.m)
        /\ doc' = r.c
        /\ heap' = r.h
        /\ last' = [op |-> "undo", res |-> r.res, names |-> {}, path |-> NoPath]
        /\ UNCHANGED <<meta, snap, classic, guard, client, ext, disk>>

\* caretaker.redo()
Redo ==
    LET r == redo(Mgr, doc, heap, ext)
    IN  /\ SetMgr(r.m)
        /\ doc' = r.c
        /\ heap' = r.h
        /\ last' = [op |-> "redo", res |-> r.res, names |-> {}, path |-> NoPath]
        /\ UNCHANGED <<meta, snap, classic, guard, client, ext, disk>>

\* save_to_disk that generates the label but does not append it.
save_to_disk_label_dropped(m, c, h, filename) ==
    LET g == generate_label(m, "Saved to Disk", PickleName(filename))
        memento == create_memento(c, h)
        m2 == [g.m EXCEPT !.history = Append(@, memento)]
    IN  [m |-> [m2 EXCEPT !.cursor = Len(m2.history) - 1],
         memento |-> memento, filepath |-> PathOf(filename)]

\* The part of Caretaker.save_to_disk before the file is opened
\* (lines 253-260).
save_to_disk(m, c, h, filename) ==
    LET g == generate_label(m, "Saved to Disk", PickleName(filename))
        m1 == [g.m EXCEPT !.labels = Append(@, g.label)]
        memento == create_memento(c, h)
        m2 == [m1 EXCEPT !.history = Append(@, memento)]
    IN  [m |-> [m2 EXCEPT !.cursor = Len(m2.history) - 1],
         memento |-> memento, filepath |-> PathOf(filename)]

\* Caretaker.save_to_disk (lines 251-265); `written` is whether open() and
\* pickle.dump() succeed.  Only a save that succeeds returns the path.
SaveToDisk(filename, written) ==
    LET r == save_to_disk(Mgr, doc, heap, filename)
    IN  /\ Len(history) < HistBound
        /\ SetMgr(r.m)
        /\ IF written
           THEN /\ disk' = [disk EXCEPT ![r.filepath] = pickle_dump(r.memento)]
                /\ last' = [op |-> "save_to_disk", res |-> "ok",
                            names |-> {filename}, path |-> r.filepath]
           ELSE /\ \E left \in FailedWrite(disk[r.filepath]) :
                       disk' = [disk EXCEPT ![r.filepath] = left]
                /\ last' = [op |-> "save_to_disk", res |-> "OSError",
                            names |-> {filename}, path |-> NoPath]
        /\ UNCHANGED <<meta, snap, classic, guard, client, doc, heap, ext>>

\* load_from_disk that appends the file's memento and moves the cursor but
\* does not restore the container.
load_from_disk_no_restore(m, c, h, e, filepath, file) ==
    IF file.kind = "absent"
    THEN [m |-> m, c |-> c, h |-> h, res |-> "ValueError"]
    ELSE IF file.kind # "pickle"
    THEN [m |-> m, c |-> c, h |-> h, res |-> LoadError(file)]
    ELSE LET memento == pickle_load(file)
             m1 == [m EXCEPT !.history = Append(@, memento)]
             g == generate_label(m1, "Loaded from Disk", filepath.name)
             m2 == [g.m EXCEPT !.labels = Append(@, g.label)]
         IN  [m |-> [m2 EXCEPT !.cursor = Len(m2.history) - 1],
              c |-> c, h |-> h, res |-> "ok"]

\* load_from_disk that generates and appends its label first, as
\* save_to_disk does, before it looks at the path.
load_from_disk_label_first(m, c, h, e, filepath, file) ==
    LET g == generate_label(m, "Loaded from Disk", filepath.name)
        m0 == [g.m EXCEPT !.labels = Append(@, g.label)]
    IN  IF file.kind = "absent"
        THEN [m |-> m0, c |-> c, h |-> h, res |-> "ValueError"]
        ELSE IF file.kind # "pickle"
        THEN [m |-> m0, c |-> c, h |-> h, res |-> LoadError(file)]
        ELSE LET memento == pickle_load(file)
                 r == restore_memento(memento, c, h, e)
                 m1 == [m0 EXCEPT !.history = Append(@, memento)]
                 m3 == [m1 EXCEPT !.cursor = Len(m1.history) - 1]
             IN  [m |-> IF r.err = "ok" THEN m3 ELSE m0,
                  c |-> r.c, h |-> Collect(r.h, r.c, e), res |-> r.err]

\* Caretaker.load_from_disk (lines 267-277); `file` is what is at the path.
load_from_disk(m, c, h, e, filepath, file) ==
    IF file.kind = "absent"
    THEN [m |-> m, c |-> c, h |-> h, res |-> "ValueError"]
    ELSE IF file.kind # "pickle"
    THEN [m |-> m, c |-> c, h |-> h, res |-> LoadError(file)]
    ELSE LET memento == pickle_load(file)
             r == restore_memento(memento, c, h, e)
             m1 == [m EXCEPT !.history = Append(@, memento)]
             g == generate_label(m1, "Loaded from Disk", filepath.name)
             m2 == [g.m EXCEPT !.labels = Append(@, g.label)]
             m3 == [m2 EXCEPT !.cursor = Len(m2.history) - 1]
         IN  [m |-> IF r.err = "ok" THEN m3 ELSE m,
              c |-> r.c, h |-> Collect(r.h, r.c, e), res |-> r.err]

\* caretaker.load_from_disk(filepath)
LoadFromDisk(filepath) ==
    LET r == load_from_disk(Mgr, doc, heap, ext, filepath, disk[filepath])
    IN  /\ Len(r.m.history) <= HistBound
        /\ SetMgr(r.m)
        /\ doc' = r.c
        /\ heap' = r.h
        /\ last' = [op |-> "load_from_disk", res |-> r.res, names |-> {},
                    path |-> filepath]
        /\ UNCHANGED <<meta, snap, classic, guard, client, ext, disk>>

Next ==
    \/ \E kv \in AssignArgs(client) : Assign(kv)
    \/ \E kwargs \in StateKwargs(client) : SetState(kwargs)
    \/ \E args \in DeleteArgs(client) : DeleteState(args)
    \/ TakeRef
    \/ \E id \in ObjIds : \E kwargs \in ChildKwargs(client) :
           ChildSetState(id, kwargs)
    \/ Checkpoint
    \/ Undo
    \/ Redo
    \/ \E f \in Files : \E written \in BOOLEAN : SaveToDisk(f, written)
    \/ \E f \in Paths : LoadFromDisk(f)

Spec == Init /\ [][Next]_vars

\* The pair driven through set_state, delete_state and the Caretaker's
\* methods only (no plain attribute assignment, no edit of a nested
\* container).
NextPublic ==
    \/ \E kwargs \in StateKwargs(client) : SetState(kwargs)
    \/ \E args \in DeleteArgs(client) : DeleteState(args)
    \/ Checkpoint
    \/ Undo
    \/ Redo
    \/ \E f \in Files : \E written \in BOOLEAN : SaveToDisk(f, written)
    \/ \E f \in Paths : LoadFromDisk(f)

SpecPublic == Init /\ [][NextPublic]_vars

\* create_memento that also files the memento in the manager it is linked
\* to, as a checkpoint does.
CreateMemento_recording ==
    LET m == AutoCheckpoint(Mgr, doc, heap, "None")
    IN  /\ Len(m.history) <= HistBound
        /\ SetMgr(m)
        /\ last' = [op |-> "create_memento", res |-> "ok",
                    names |-> DictKeys(doc.d), path |-> NoPath]
        /\ UNCHANGED <<meta, snap, classic, guard, client, doc, heap, ext, disk>>

\* memento = doc.create_memento() called by the client (lines 132-134): it
\* returns a Memento of a deep copy; `names` are the attributes it holds.
CreateMemento ==
    LET memento == create_memento(doc, heap)
    IN  /\ last' = [op |-> "create_memento", res |-> "ok",
                    names |-> DictKeys(get_snapshot(memento).state.d),
                    path |-> NoPath]
        /\ UNCHANGED <<meta, snap, classic, guard, client, doc, heap, ext, history, cursor, labels,
                       label_counter, disk>>

\* The public operations together with captures made by the client itself.
NextCapture ==
    \/ NextPublic
    \/ CreateMemento

SpecCapture == Init /\ [][NextCapture]_vars

----------------------------------------------------------------------------
(* A client that materializes stored snapshots itself *)

\* The object the client reaches through what get_snapshot returned: the
\* returned object itself when it is a new one, otherwise the state object
\* of the memento it came from.
HeldOf(sn, hist) == IF sn.obj.fresh THEN sn.obj.state ELSE hist[sn.of]

\* s = caretaker._history[i - 1].get_snapshot() (lines 28-30): the client
\* keeps the object the memento returns.
GetSnapshot(i) ==
    /\ i \in DOMAIN history
    /\ snap' = [of |-> i, obj |-> get_snapshot(history[i])]
    /\ last' = [op |-> "get_snapshot", res |-> "ok",
                names |-> DictKeys(HeldOf(snap', history).d), path |-> NoPath]
    /\ UNCHANGED <<meta, classic, guard, serialized>>

\* A write to the object the client reaches through `s`: it lands in that
\* object, which is the memento's own state only if get_snapshot returned it.
WriteHeld(c) ==
    /\ snap' = IF snap.obj.fresh THEN [snap EXCEPT !.obj.state = c] ELSE snap
    /\ history' = IF snap.obj.fresh THEN history
                  ELSE [history EXCEPT ![snap.of] = c]

\* s.name = value on the object returned by get_snapshot:
\* Originator.__setattr__ (lines 56-66) of that object.
MutateSnapshot(kv) ==
    LET r == Originator_setattr(HeldOf(snap, history), kv.k, kv.v)
    IN  /\ snap.of # 0
        /\ WriteHeld(r.c)
        /\ last' = [op |-> "snapshot_setattr", res |-> r.err, names |-> {kv.k},
                    path |-> NoPath]
        /\ UNCHANGED <<meta, classic, guard, client, doc, heap, ext, cursor,
                       labels, label_counter, disk>>

\* s.child.set_state(kwargs) on the nested container of the object returned
\* by get_snapshot (lines 84-93; a nested container has no caretaker).
MutateSnapshotChild(kwargs) ==
    LET s == HeldOf(snap, history)
        r == SetAll(DictGet(s.d, "child").v, kwargs, 1)
    IN  /\ snap.of # 0
        /\ DictHas(s.d, "child")
        /\ DictGet(s.d, "child").t = "tree"
        /\ WriteHeld([s EXCEPT !.d = DictSet(@, "child", Tree(r.c))])
        /\ last' = [op |-> "snapshot_child_set_state", res |-> r.err,
                    names |-> DictKeys(kwargs), path |-> NoPath]
        /\ UNCHANGED <<meta, classic, guard, client, doc, heap, ext, cursor,
                       labels, label_counter, disk>>

\* A client that edits the container (and its nested container), steps
\* through the history, materializes history entries and edits what it gets.
NextSnapshot ==
    \/ \E kv \in AssignArgs(client) : Assign(kv)
    \/ \E kwargs \in StateKwargs(client) : SetState(kwargs)
    \/ \E id \in ObjIds : \E kwargs \in ChildKwargs(client) :
           ChildSetState(id, kwargs)
    \/ Undo
    \/ Redo
    \/ \E i \in 1 .. MaxHist : GetSnapshot(i)
    \/ \E kv \in AssignArgs(client) : MutateSnapshot(kv)
    \/ \E kwargs \in ChildKwargs(client) : MutateSnapshotChild(kwargs)

SpecSnapshot == Init /\ [][NextSnapshot]_vars

----------------------------------------------------------------------------
(* The work of a capture *)

\* The Originator objects of an attribute tree: the container and, through
\* its attributes, the nested Originators.
RECURSIVE TreeObjs(_), NestedObjs(_, _)
NestedObjs(d, i) ==
    IF i > Len(d) THEN 0
    ELSE (IF d[i].v.t = "tree" THEN TreeObjs(d[i].v.v) ELSE 0)
             + NestedObjs(d, i + 1)

TreeObjs(s) == 1 + NestedObjs(s.d, 1)

\* The Originator objects that copy.deepcopy(self) of create_memento built
\* for hist[i], taken by the Caretaker the container is linked to:
\* deepcopy follows _Originator__caretaker (line 70) into the Caretaker and
\* its _history (line 188), so it copies the tree and, with each memento
\* hist[1] .. hist[i-1] already stored, everything that memento holds.
RECURSIVE Copied(_, _), CopiedBelow(_, _)
CopiedBelow(hist, i) ==
    IF i = 0 THEN 0 ELSE Copied(hist, i) + CopiedBelow(hist, i - 1)

Copied(hist, i) ==
    TreeObjs(hist[i])
        + (IF hist[i].link = "copy" THEN CopiedBelow(hist, i - 1) ELSE 0)

\* The pair before any restore: every capture is taken while the container
\* is linked to the Caretaker itself.
NextGrow ==
    \/ \E kv \in AssignArgs(client) : Assign(kv)
    \/ \E kwargs \in StateKwargs(client) : SetState(kwargs)
    \/ \E args \in DeleteArgs(client) : DeleteState(args)
    \/ TakeRef
    \/ \E id \in ObjIds : \E kwargs \in ChildKwargs(client) :
           ChildSetState(id, kwargs)
    \/ Checkpoint
    \/ \E f \in Files : \E written \in BOOLEAN : SaveToDisk(f, written)

SpecGrow == Init /\ [][NextGrow]_vars

----------------------------------------------------------------------------
(* Threads calling the Caretaker: its methods statement by statement *)

\* seq[i] as Python evaluates it: a negative index counts from the end.
PyIndex(seq, i) == seq[IF i < 0 THEN Len(seq) + i + 1 ELSE i + 1]

\* Indexing that accepts no negative index.
InRange_nonnegative(seq, i) == 0 <= i /\ i < Len(seq)

\* The indexes Python accepts for seq.
InRange(seq, i) == -Len(seq) <= i /\ i < Len(seq)

\* The methods the threads call (lines 225-249).
ManagerCalls == {"checkpoint", "undo", "redo"}

\* Thread t enters caretaker.<op>(); `entry` is the state it finds.
Call(t, op) ==
    /\ frames[t].pc = "idle"
    /\ op = "checkpoint" => Len(history) < HistBound
    /\ frames' = [frames EXCEPT ![t] =
                      [pc |-> IF op = "checkpoint" THEN "create" ELSE "check",
                       op |-> op, memento |-> FreeCell, res |-> "ok",
                       i |-> 0,
                       entry |-> [m |-> Mgr, c |-> doc, h |-> heap]]]
    /\ UNCHANGED <<serialized, last, classic, meta, snap>>

\* The guard of undo / redo without its raise.
CheckStep_never_refusing(t) ==
    /\ frames[t].pc = "check"
    /\ frames' = [frames EXCEPT ![t].pc = "move"]
    /\ UNCHANGED <<serialized, last, classic, meta, snap>>

\* `if self._current_pos == 0: raise ValueError` (lines 235-236) and
\* `if self._current_pos >= len(self._history) - 1: raise ValueError`
\* (lines 244-245).
CheckStep(t) ==
    LET refused == IF frames[t].op = "undo" THEN cursor = 0
                   ELSE cursor >= Len(history) - 1
    IN  /\ frames[t].pc = "check"
        /\ frames' = [frames EXCEPT
                          ![t].pc = IF refused THEN "return" ELSE "move",
                          ![t].res = IF refused THEN "ValueError" ELSE "ok"]
        /\ UNCHANGED <<serialized, last, classic, meta, snap>>

\* `self._current_pos -= 1` (line 238) and `self._current_pos += 1`
\* (line 247).
MoveStep(t) ==
    /\ frames[t].pc = "move"
    /\ cursor' = IF frames[t].op = "undo" THEN cursor - 1 ELSE cursor + 1
    /\ frames' = [frames EXCEPT ![t].pc = "get"]
    /\ UNCHANGED <<client, doc, heap, ext, history, labels, label_counter,
                   disk, last, classic, meta, snap>>

\* `memento = self._history[self._current_pos]` (lines 239 and 248).
\* An index outside -len .. len - 1 raises IndexError.
GetStep(t) ==
    /\ frames[t].pc = "get"
    /\ frames' = IF InRange(history, cursor)
                 THEN [frames EXCEPT ![t].pc = "restore",
                                     ![t].memento = PyIndex(history, cursor)]
                 ELSE [frames EXCEPT ![t].pc = "return",
                                     ![t].res = "IndexError"]
    /\ UNCHANGED <<serialized, last, classic, meta, snap>>

\* `self._originator.restore_memento(memento)` (lines 240 and 249), statement
\* by statement.  First `self.__dict__.clear()` (line 152) and
\* `snapshot = memento.get_snapshot()` (line 153): the container has no
\* attribute left, the private ones included.  No attribute named
\* `_readonly` exists in these clients, so the guard of __setattr__ does
\* not read the readonly set while it is missing.
RestoreClearStep(t) ==
    /\ frames[t].pc = "restore"
    /\ doc' = [d |-> <<>>, ro |-> {}, link |-> "none"]
    /\ heap' = Collect(heap, doc', ext)
    /\ frames' = [frames EXCEPT ![t].pc = "set_link"]
    /\ UNCHANGED <<client, ext, history, cursor, labels, label_counter,
                   disk, last, classic, meta, snap>>

\* The loop of _recursive_restore (lines 141-150), one setattr per step, in
\* the order of the snapshot's __dict__: _Originator__caretaker first,
RestoreLinkStep(t) ==
    /\ frames[t].pc = "set_link"
    /\ doc' = [doc EXCEPT !.link = get_snapshot(frames[t].memento).state.link]
    /\ frames' = [frames EXCEPT ![t].pc = "set_ro"]
    /\ UNCHANGED <<client, heap, ext, history, cursor, labels, label_counter,
                   disk, last, classic, meta, snap>>

\* then _Originator__readonly,
RestoreReadonlyStep(t) ==
    /\ frames[t].pc = "set_ro"
    /\ doc' = [doc EXCEPT !.ro = get_snapshot(frames[t].memento).state.ro]
    /\ frames' = [frames EXCEPT
                      ![t].pc = IF get_snapshot(frames[t].memento).state.d = <<>>
                                THEN "return"
                                ELSE "set_attr",
                      ![t].i = 1]
    /\ UNCHANGED <<client, heap, ext, history, cursor, labels, label_counter,
                   disk, last, classic, meta, snap>>

\* then the other entries: entry i is assigned to the container as it is
\* now; an exception ends the call.
RestoreAttrStep(t) ==
    LET snapshot == get_snapshot(frames[t].memento).state
        i == frames[t].i
        r == recursive_restore([snapshot EXCEPT !.d = <<snapshot.d[i]>>], 1,
                               doc, heap, RefsOf(doc) \cup {ext})
        done == r.err # "ok" \/ i = Len(snapshot.d)
    IN  /\ frames[t].pc = "set_attr"
        /\ doc' = r.c
        /\ heap' = Collect(r.h, r.c, ext)
        /\ frames' = [frames EXCEPT
                          ![t].pc = IF done THEN "return" ELSE "set_attr",
                          ![t].res = r.err,
                          ![t].i = IF done THEN 0 ELSE i + 1]
        /\ UNCHANGED <<client, ext, history, cursor, labels, label_counter,
                       disk, last, classic, meta, snap>>

\* `memento = self._originator.create_memento()` (line 227).
CreateStep(t) ==
    /\ frames[t].pc = "create"
    /\ frames' = [frames EXCEPT ![t].pc = "append",
                                ![t].memento = create_memento(doc, heap)]
    /\ UNCHANGED <<serialized, last, classic, meta, snap>>

\* `self._history.append(memento)` (line 228).
AppendStep(t) ==
    /\ frames[t].pc = "append"
    /\ history' = Append(history, frames[t].memento)
    /\ frames' = [frames EXCEPT ![t].pc = "label"]
    /\ UNCHANGED <<client, doc, heap, ext, cursor, labels, label_counter,
                   disk, last, classic, meta, snap>>

\* `label = self._generate_label(description)` and
\* `self._labels.append(label)` (lines 229-230).
LabelStep(t) ==
    LET g == generate_label(Mgr, "None", "")
    IN  /\ frames[t].pc = "label"
        /\ label_counter' = g.m.label_counter
        /\ labels' = Append(labels, g.label)
        /\ frames' = [frames EXCEPT ![t].pc = "cursor"]
        /\ UNCHANGED <<client, doc, heap, ext, history, cursor, disk, last,
                       classic, meta, snap>>

\* `self._current_pos = len(self._history) - 1` (line 231).
CursorStep(t) ==
    /\ frames[t].pc = "cursor"
    /\ cursor' = Len(history) - 1
    /\ frames' = [frames EXCEPT ![t].pc = "return"]
    /\ UNCHANGED <<client, doc, heap, ext, history, labels, label_counter,
                   disk, last, classic, meta, snap>>

\* Thread t leaves the method, with its result or its exception.
Return(t) ==
    /\ frames[t].pc = "return"
    /\ frames' = [frames EXCEPT ![t] = Idle]
    /\ last' = [op |-> frames[t].op, res |-> frames[t].res, names |-> {},
                path |-> NoPath]
    /\ UNCHANGED <<serialized, classic, meta, snap>>

\* The clients of the claim about guarded use: every call is made inside
\* `with lock:` on one lock shared by all threads; set_state calls are
\* made under the same lock.
GuardedCall(t, op) == mutex = "free" /\ mutex' = t /\ Call(t, op)

GuardedStep(t) ==
    /\ mutex = t
    /\ UNCHANGED mutex
    /\ \/ CheckStep(t)
       \/ MoveStep(t)
       \/ GetStep(t)
       \/ RestoreClearStep(t)
       \/ RestoreLinkStep(t)
       \/ RestoreReadonlyStep(t)
       \/ RestoreAttrStep(t)
       \/ CreateStep(t)
       \/ AppendStep(t)
       \/ LabelStep(t)
       \/ CursorStep(t)

GuardedReturn(t) == mutex = t /\ mutex' = "free" /\ Return(t)

\* The other public operations, each run whole inside `with lock:`.
GuardedSetState(kwargs) == mutex = "free" /\ SetState(kwargs)

GuardedDeleteState(args) == mutex = "free" /\ DeleteState(args)

GuardedSaveToDisk(f, written) == mutex = "free" /\ SaveToDisk(f, written)

GuardedLoadFromDisk(f) == mutex = "free" /\ LoadFromDisk(f)

InitGuarded == Init /\ client = "simple"

NextGuarded ==
    \/ \E kwargs \in StateKwargs(client) : GuardedSetState(kwargs)
    \/ \E args \in DeleteArgs(client) : GuardedDeleteState(args)
    \/ \E f \in Files : \E written \in BOOLEAN : GuardedSaveToDisk(f, written)
    \/ \E f \in Paths : GuardedLoadFromDisk(f)
    \/ \E t \in Threads : \E op \in ManagerCalls : GuardedCall(t, op)
    \/ \E t \in Threads : GuardedStep(t)
    \/ \E t \in Threads : GuardedReturn(t)

SpecGuarded == InitGuarded /\ [][NextGuarded]_vars

\* Two threads that call undo without a lock, both from cursor 1: every
\* statement of one call can be followed by a statement of the other.  The
\* history is built by whole operations of a single thread while no call
\* of the two threads is in progress; a run is followed no further once
\* the cursor is below 0.
Quiet == cursor >= 0 /\ \A t \in Threads : frames[t].pc = "idle"

UnguardedUndo(t) ==
    /\ cursor = 1
    /\ Call(t, "undo")
    /\ UNCHANGED mutex

UnguardedStep(t) ==
    /\ UNCHANGED mutex
    /\ \/ CheckStep(t)
       \/ MoveStep(t)
       \/ GetStep(t)
       \/ RestoreClearStep(t)
       \/ RestoreLinkStep(t)
       \/ RestoreReadonlyStep(t)
       \/ RestoreAttrStep(t)

UnguardedReturn(t) == Return(t) /\ UNCHANGED mutex

NextUnguarded ==
    \/ Quiet /\ \E kwargs \in StateKwargs(client) : SetState(kwargs)
    \/ Quiet /\ Checkpoint
    \/ Quiet /\ Undo
    \/ Quiet /\ Redo
    \/ \E t \in Threads : UnguardedUndo(t)
    \/ \E t \in Threads : UnguardedStep(t)
    \/ \E t \in Threads : UnguardedReturn(t)

SpecUnguarded == InitGuarded /\ [][NextUnguarded]_vars

\* What the method of frame f does when it runs alone from f.entry.
AtomicResult(f) ==
    CASE f.op = "undo" -> undo(f.entry.m, f.entry.c, f.entry.h, ext)
      [] f.op = "redo" -> redo(f.entry.m, f.entry.c, f.entry.h, ext)
      [] OTHER -> [m |-> checkpoint(f.entry.m, f.entry.c, f.entry.h, "None"),
                   c |-> f.entry.c, h |-> f.entry.h, res |-> "ok"]

----------------------------------------------------------------------------
(* The classic variant: classic_memento_pattern.py *)

\* Bound on len(_undo_stack); undo and redo move entries between the two
\* stacks, so len(_undo_stack) + len(_redo_stack) never exceeds it.
MaxStack == 2

\* k.endswith("_readonly") (line 101) on the names the clients use.
EndsWithReadonly(k) == k \in {"k_readonly", "_readonly"}

\* _readonly_error (lines 65-68): `key in self.__dict__.get("_readonly",
\* set())`; the test raises TypeError when the value stored there is not a
\* container.
readonly_error(o, key) ==
    IF o.slot.t = "missing" THEN "ok"
    ELSE IF o.slot.t # "set" THEN "TypeError"
    ELSE IF key \in o.ro THEN "AttributeError" ELSE "ok"

\* `key in self.__dict__` (lines 70, 107).
InDict(o, key) ==
    DictHas(o.d, key) \/ (key = "_readonly" /\ o.slot.t # "missing")

\* `self.__dict__[key] = value`.
DictStore(o, key, value) ==
    IF key = "_readonly" THEN [o EXCEPT !.slot = value, !.ro = {}]
    ELSE [o EXCEPT !.d = DictSet(@, key, value)]

\* `self._readonly.add(key)` (lines 102, 110): AttributeError when the key
\* "_readonly" is gone (__getattr__) or holds a value without `add`.
readonly_add(o, key) ==
    IF o.slot.t = "set"
    THEN [o |-> [o EXCEPT !.ro = @ \cup {key}], err |-> "ok"]
    ELSE [o |-> o, err |-> "AttributeError"]

\* Originator.__setattr__ (lines 77-80) with _readonly_error (lines 65-68).
classic_setattr(o, key, value) ==
    LET e == readonly_error(o, key)
    IN  IF e # "ok" THEN [o |-> o, err |-> e]
        ELSE [o |-> DictStore(o, key, value), err |-> "ok"]

\* Originator.dynamic_attributes (lines 97-103); an exception ends the loop.
RECURSIVE dynamic_attributes(_, _, _)
dynamic_attributes(o, kwargs, i) ==
    IF i > Len(kwargs) THEN [o |-> o, err |-> "ok"]
    ELSE LET k == kwargs[i].k
             a == IF EndsWithReadonly(k) THEN readonly_add(o, k)
                  ELSE [o |-> o, err |-> "ok"]
         IN  IF a.err # "ok" THEN a
             ELSE dynamic_attributes(DictStore(a.o, k, kwargs[i].v),
                                     kwargs, i + 1)

\* Originator.__init__ (lines 93-95); the object exists when no exception
\* was raised.
classic_init(kwargs) ==
    dynamic_attributes([d |-> <<>>, ro |-> {}, slot |-> SetSlot], kwargs, 1).o

\* Originator.add_attribute (lines 105-111); no client uses the name of a
\* class attribute.
add_attribute(o, key, value, readonly) ==
    IF InDict(o, key)
    THEN [o |-> o, err |-> "AttributeError"]
    ELSE LET a == IF readonly THEN readonly_add(o, key)
                  ELSE [o |-> o, err |-> "ok"]
         IN  IF a.err # "ok" THEN a
             ELSE [o |-> DictStore(a.o, key, value), err |-> "ok"]

\* Originator.remove_attribute (lines 113-117).
remove_attribute(o, key) ==
    LET e == readonly_error(o, key)
    IN  IF ~InDict(o, key) THEN [o |-> o, err |-> "AttributeError"]
        ELSE IF e # "ok" THEN [o |-> o, err |-> e]
        ELSE IF key = "_readonly"
        THEN [o |-> [o EXCEPT !.slot = NoSlot, !.ro = {}], err |-> "ok"]
        ELSE [o |-> [o EXCEPT !.d = SelectSeq(@, LAMBDA x : x.k # key)],
              err |-> "ok"]

\* Originator.save_memento (lines 123-125) with Memento.__init__
\* (lines 23-24): a deep copy of __dict__, the "_readonly" entry included.
save_memento(o) == o

\* Memento.get_state (lines 26-28).
get_state(memento) == memento

\* dict.update: the entries of `other` are assigned in order.
RECURSIVE DictUpdate(_, _, _)
DictUpdate(d, other, i) ==
    IF i > Len(other) THEN d
    ELSE DictUpdate(DictSet(d, other[i].k, other[i].v), other, i + 1)

\* Originator.restore_memento (lines 127-129) of the classic variant:
\* self.__dict__.update(previous_state); the entry "_readonly" is replaced
\* when the snapshot has one.
classic_restore_memento(o, memento) ==
    LET previous_state == get_state(memento)
        had == previous_state.slot.t # "missing"
    IN  [d |-> DictUpdate(o.d, previous_state.d, 1),
         ro |-> IF had THEN previous_state.ro ELSE o.ro,
         slot |-> IF had THEN previous_state.slot ELSE o.slot]

\* The classic pair as one value.
Classic == [o |-> originator, us |-> undo_stack, rs |-> redo_stack]

SetClassic(w) ==
    /\ originator' = w.o
    /\ undo_stack' = w.us
    /\ redo_stack' = w.rs

\* save that leaves the redo stack as it is.
classic_save_keeping_redo(w) ==
    [o |-> w.o, us |-> Append(w.us, save_memento(w.o)), rs |-> w.rs,
     res |-> "ok"]

\* Caretaker.save (lines 146-151).
classic_save(w) ==
    [o |-> w.o, us |-> Append(w.us, save_memento(w.o)), rs |-> <<>>,
     res |-> "ok"]

\* Caretaker.undo (lines 153-161).
classic_undo(w) ==
    IF w.us = <<>>
    THEN [o |-> w.o, us |-> w.us, rs |-> w.rs, res |-> "IndexError"]
    ELSE LET rs1 == Append(w.rs, save_memento(w.o))
             previous_state == w.us[Len(w.us)]
         IN  [o |-> classic_restore_memento(w.o, previous_state),
              us |-> SubSeq(w.us, 1, Len(w.us) - 1), rs |-> rs1, res |-> "ok"]

\* Caretaker.redo (lines 163-171).
classic_redo(w) ==
    IF w.rs = <<>>
    THEN [o |-> w.o, us |-> w.us, rs |-> w.rs, res |-> "IndexError"]
    ELSE LET us1 == Append(w.us, save_memento(w.o))
             previous_state == w.rs[Len(w.rs)]
         IN  [o |-> classic_restore_memento(w.o, previous_state),
              us |-> us1, rs |-> SubSeq(w.rs, 1, Len(w.rs) - 1), res |-> "ok"]

\* The inputs of the classic client.
ClassicInitKwargs == { <<KV("a", Scalar(1))>> }

ClassicAssignArgs == { KV("a", Scalar(2)), KV("b", Scalar(2)) }

ClassicAddArgs == { KV("b", Scalar(2)) }

ClassicRemoveArgs == { "b", "missing" }

\* The state after o = Originator(kwargs); caretaker = Caretaker(o)
\* (lines 93-95 and 140-144); the serialized variant is not in use.
InitClassic ==
    /\ \E kwargs \in ClassicInitKwargs : originator = classic_init(kwargs)
    /\ undo_stack = <<>>
    /\ redo_stack = <<>>
    /\ client = "classic"
    /\ doc = FreeCell
    /\ heap = [id \in ObjIds |-> FreeCell]
    /\ ext = NoRef
    /\ history = <<>>
    /\ cursor = 0
    /\ labels = <<>>
    /\ label_counter = 0
    /\ disk = [f \in Paths |-> NoFile]
    /\ last = [op |-> "classic_init", res |-> "ok", names |-> {},
               path |-> NoPath]
    /\ snap = NoSnap
    /\ mutex = "free"
    /\ frames = [t \in Threads |-> Idle]
    /\ InitMeta

\* o.name = value
ClassicAssign(kv) ==
    LET r == classic_setattr(originator, kv.k, kv.v)
    IN  /\ originator' = r.o
        /\ last' = [op |-> "classic_setattr", res |-> r.err,
                    names |-> {kv.k}, path |-> NoPath]
        /\ UNCHANGED <<meta, snap, serialized, guard, undo_stack, redo_stack>>

\* o.add_attribute(key, value, readonly)
ClassicAdd(kv, readonly) ==
    LET r == add_attribute(originator, kv.k, kv.v, readonly)
    IN  /\ originator' = r.o
        /\ last' = [op |-> "add_attribute", res |-> r.err,
                    names |-> {kv.k}, path |-> NoPath]
        /\ UNCHANGED <<meta, snap, serialized, guard, undo_stack, redo_stack>>

\* o.remove_attribute(key)
ClassicRemove(key) ==
    LET r == remove_attribute(originator, key)
    IN  /\ originator' = r.o
        /\ last' = [op |-> "remove_attribute", res |-> r.err,
                    names |-> {key}, path |-> NoPath]
        /\ UNCHANGED <<meta, snap, serialized, guard, undo_stack, redo_stack>>

\* caretaker.save()
ClassicSave ==
    LET r == classic_save(Classic)
    IN  /\ Len(undo_stack) < MaxStack
        /\ SetClassic(r)
        /\ last' = [op |-> "classic_save", res |-> r.res, names |-> {},
                    path |-> NoPath]
        /\ UNCHANGED <<meta, snap, serialized, guard>>

\* caretaker.undo()
ClassicUndo ==
    LET r == classic_undo(Classic)
    IN  /\ SetClassic(r)
        /\ last' = [op |-> "classic_undo", res |-> r.res, names |-> {},
                    path |-> NoPath]
        /\ UNCHANGED <<meta, snap, serialized, guard>>

\* caretaker.redo()
ClassicRedo ==
    LET r == classic_redo(Classic)
    IN  /\ SetClassic(r)
        /\ last' = [op |-> "classic_redo", res |-> r.res, names |-> {},
                    path |-> NoPath]
        /\ UNCHANGED <<meta, snap, serialized, guard>>

NextClassic ==
    \/ \E kv \in ClassicAssignArgs : ClassicAssign(kv)
    \/ \E kv \in ClassicAddArgs : \E readonly \in BOOLEAN :
           ClassicAdd(kv, readonly)
    \/ \E key \in ClassicRemoveArgs : ClassicRemove(key)
    \/ ClassicSave
    \/ ClassicUndo
    \/ ClassicRedo

SpecClassic == InitClassic /\ [][NextClassic]_vars

----------------------------------------------------------------------------
(* The singleton metaclass: SingletonMeta.__call__ statement by statement *)

\* Calls of cls() each thread makes.
MaxCalls == 2

\* The other variable groups, which a call of cls() leaves alone.
memento == <<serialized, last, snap, classic, guard>>

SetCall(t, f) == calls' = [calls EXCEPT ![t] = f]

\* Thread t calls cls(...) (line 16).
MetaCall(t) ==
    /\ calls[t].pc = "idle"
    /\ calls[t].n < MaxCalls
    /\ SetCall(t, [calls[t] EXCEPT !.pc = "check_lock", !.n = @ + 1])
    /\ UNCHANGED <<locks, holder, singleton, constructed, memento>>

\* `if cls not in cls._locks:` (line 20).
CheckLock(t) ==
    /\ calls[t].pc = "check_lock"
    /\ SetCall(t, [calls[t] EXCEPT
                       !.pc = IF locks = 0 THEN "make_lock" ELSE "get_lock"])
    /\ UNCHANGED <<locks, holder, singleton, constructed, memento>>

\* `cls._locks[cls] = Lock()` (line 21): a new Lock object, nobody holds
\* it; the entry is stored whether or not another thread stored one since
\* the test of line 20.
MakeLock(t) ==
    LET new == locks + 1
    IN  /\ calls[t].pc = "make_lock"
        /\ locks' = new
        /\ SetCall(t, [calls[t] EXCEPT !.pc = "get_lock"])
        /\ UNCHANGED <<holder, singleton, constructed, memento>>

\* `cls._locks[cls]` of the with statement (line 23): the Lock object that
\* the entry holds now.
GetLock(t) ==
    /\ calls[t].pc = "get_lock"
    /\ SetCall(t, [calls[t] EXCEPT !.pc = "acquire", !.lk = locks])
    /\ UNCHANGED <<locks, holder, singleton, constructed, memento>>

\* `with ...:` (line 23) acquires that Lock object; the thread waits while
\* another thread holds it.
Acquire(t) ==
    /\ calls[t].pc = "acquire"
    /\ holder[calls[t].lk] = "free"
    /\ holder' = [holder EXCEPT ![calls[t].lk] = t]
    /\ SetCall(t, [calls[t] EXCEPT !.pc = "check_instance"])
    /\ UNCHANGED <<locks, singleton, constructed, memento>>

\* `if cls not in cls._singleton:` (line 25).
CheckInstance(t) ==
    /\ calls[t].pc = "check_instance"
    /\ SetCall(t, [calls[t] EXCEPT
                       !.pc = IF singleton = 0 THEN "construct" ELSE "fetch"])
    /\ UNCHANGED <<locks, holder, singleton, constructed, memento>>

\* `obj = super().__call__(*args, **kwds)` (line 26): one more instance.
ConstructInstance(t) ==
    /\ calls[t].pc = "construct"
    /\ constructed' = constructed + 1
    /\ SetCall(t, [calls[t] EXCEPT !.pc = "store", !.obj = constructed + 1])
    /\ UNCHANGED <<locks, holder, singleton, memento>>

\* `cls._singleton[cls] = obj` (line 27).
StoreInstance(t) ==
    /\ calls[t].pc = "store"
    /\ singleton' = calls[t].obj
    /\ SetCall(t, [calls[t] EXCEPT !.pc = "fetch"])
    /\ UNCHANGED <<locks, holder, constructed, memento>>

\* `return cls._singleton[cls]` (line 28): the value is read, then the
\* with block releases the Lock object and the call returns.
FetchInstance(t) ==
    /\ calls[t].pc = "fetch"
    /\ SetCall(t, [calls[t] EXCEPT !.pc = "release", !.obj = singleton])
    /\ UNCHANGED <<locks, holder, singleton, constructed, memento>>

ReleaseAndReturn(t) ==
    /\ calls[t].pc = "release"
    /\ holder' = [holder EXCEPT ![calls[t].lk] = "free"]
    /\ SetCall(t, [calls[t] EXCEPT !.pc = "idle", !.lk = 0, !.obj = 0,
                                   !.rets = @ \cup {calls[t].obj}])
    /\ UNCHANGED <<locks, singleton, constructed, memento>>

NextMeta ==
    \/ \E t \in Threads : MetaCall(t)
    \/ \E t \in Threads : CheckLock(t)
    \/ \E t \in Threads : MakeLock(t)
    \/ \E t \in Threads : GetLock(t)
    \/ \E t \in Threads : Acquire(t)
    \/ \E t \in Threads : CheckInstance(t)
    \/ \E t \in Threads : ConstructInstance(t)
    \/ \E t \in Threads : StoreInstance(t)
    \/ \E t \in Threads : FetchInstance(t)
    \/ \E t \in Threads : ReleaseAndReturn(t)

\* The two memento variants stay as constructed.
SpecMeta == InitClassic /\ [][NextMeta]_vars

----------------------------------------------------------------------------
(* Properties *)

ManagerOps == {"checkpoint", "undo", "redo", "save_to_disk", "load_from_disk"}

ContainerOps == {"setattr", "set_state", "delete_state"}

RestoreOps == {"undo", "redo", "load_from_disk"}

\* C1: after construction and after every operation, successful or failed,
\* the cursor is an index of history: 0 <= cursor <= len(history) - 1.
C1_CursorInRange == 0 <= cursor /\ cursor <= Len(history) - 1

\* A redo has moved the cursor to the last entry and its restore has then
\* failed.
C1_Witness ==
    /\ last.op \in {"undo", "redo"}
    /\ last.res = "AttributeError"
    /\ cursor = Len(history) - 1
    /\ Len(history) > 1

\* C2 (as claimed): in every state reached through set_state, delete_state
\* and the manager's operations, after every completed operation the
\* container's attributes are those of history[cursor].
C2_Orig ==
    (last.op \in ManagerOps \cup {"set_state", "delete_state"} /\ last.res = "ok")
        => Attrs(doc, heap) = SnapAttrs(history[cursor + 1])

\* C3: labels and history have the same length after construction and after
\* every manager operation, failed ones included.
C3_LabelsParallel == Len(labels) = Len(history)

\* A save whose write failed has appended to both sequences.
C3_Witness ==
    /\ last.op = "save_to_disk"
    /\ last.res = "OSError"
    /\ Len(history) > 1

\* C4: undo at cursor = 0 and redo at cursor = len(history) - 1 fail (the
\* code raises ValueError for both) and leave history, cursor, labels and the
\* container's attributes as they were.
C4_BoundaryFails ==
    [][ /\ (last'.op = "undo" /\ cursor = 0) =>
            /\ last'.res = "ValueError"
            /\ UNCHANGED <<history, cursor, labels, doc, heap>>
        /\ (last'.op = "redo" /\ cursor = Len(history) - 1) =>
            /\ last'.res = "ValueError"
            /\ UNCHANGED <<history, cursor, labels, doc, heap>> ]_vars

\* An undo was refused at the oldest entry of a history that has newer ones.
C4_Witness ==
    /\ last.op = "undo"
    /\ last.res = "ValueError"
    /\ cursor = 0
    /\ Len(history) > 1

\* n undos, then n redos, from the world w = [m, c, h, res]; the first
\* failure stops the sequence.
RECURSIVE UndoTimes(_, _)
UndoTimes(n, w) ==
    IF n = 0 \/ w.res # "ok" THEN w
    ELSE UndoTimes(n - 1, undo(w.m, w.c, w.h, ext))

RECURSIVE RedoTimes(_, _)
RedoTimes(n, w) ==
    IF n = 0 \/ w.res # "ok" THEN w
    ELSE RedoTimes(n - 1, redo(w.m, w.c, w.h, ext))

\* The manager is fresh (no restore has run: the container still references
\* it), n >= 1 checkpoints were taken and the last one captured the
\* container as it is now.
AfterCheckpointsOnly ==
    /\ doc.link = "manager"
    /\ cursor = Len(history) - 1
    /\ cursor >= 1
    /\ Attrs(doc, heap) = SnapAttrs(history[cursor + 1])

\* C5 (as claimed): after n checkpoints on a fresh manager, n undos followed
\* by n redos all succeed and give back the container's attributes and the
\* cursor.
C5_Orig ==
    AfterCheckpointsOnly =>
        LET w == RedoTimes(cursor, UndoTimes(cursor,
                     [m |-> Mgr, c |-> doc, h |-> heap, res |-> "ok"]))
        IN  /\ w.res = "ok"
            /\ Attrs(w.c, w.h) = Attrs(doc, heap)
            /\ w.m.cursor = cursor

\* C6 (as claimed): a save_to_disk whose write fails leaves history, cursor
\* and labels as they were before the call.
C6_Orig ==
    [][ (last'.op = "save_to_disk" /\ last'.res # "ok")
            => UNCHANGED <<history, cursor, labels>> ]_vars

\* C7 (as claimed): a set or delete that names a readonly attribute fails,
\* and the stored value of every readonly attribute is unchanged by it.
C7_Orig ==
    [][ (last'.op \in ContainerOps /\ last'.names \cap doc.ro # {}) =>
            /\ last'.res = "AttributeError"
            /\ \A k \in doc.ro \cap DictKeys(doc.d) :
                   /\ DictHas(doc'.d, k)
                   /\ DictGet(doc'.d, k) = DictGet(doc.d, k) ]_vars

\* C8 (as claimed): in every reachable state, one successful set_state on
\* the managed container appends exactly one history entry and moves the
\* cursor to the new last index.
C8_Orig ==
    [][ (last'.op = "set_state" /\ last'.res = "ok") =>
            /\ Len(history') = Len(history) + 1
            /\ cursor' = Len(history') - 1 ]_vars

\* The snapshots the manager can hand to restore_memento: the history
\* entries and the mementos stored in the files.
Restorable ==
    {history[i] : i \in DOMAIN history}
        \cup {pickle_load(disk[f]) : f \in {g \in Paths : disk[g].kind = "pickle"}}

\* C9 (as claimed): restore has replace semantics: from whatever state the
\* container is in, after restore_memento of a snapshot the manager holds
\* (a history entry or a stored file) the container's attribute names and
\* values are exactly the snapshot's, and what the snapshot lacks is gone.
C9_Orig ==
    \A s \in Restorable :
        LET r == restore_memento(s, doc, heap, ext)
        IN  Attrs(r.c, r.h) = SnapAttrs(s)

\* C10 (as claimed): when a restore meets a nested container under a name
\* at which the container holds a nested container, that instance is kept
\* and restored in place, so a reference the client took to it before shows
\* the restored values.
C10_Orig ==
    [][ ( /\ last'.op \in RestoreOps
          /\ last'.res = "ok"
          /\ DictHas(doc.d, "child")
          /\ DictGet(doc.d, "child").t = "obj"
          /\ DictHas(history'[cursor' + 1].d, "child")
          /\ DictGet(history'[cursor' + 1].d, "child").t = "tree" ) =>
            /\ DictGet(doc'.d, "child") = DictGet(doc.d, "child")
            /\ ext = DictGet(doc.d, "child").v =>
                   heap'[ext] = DictGet(history'[cursor' + 1].d, "child").v ]_vars

\* C11: a stored snapshot is isolated from the container it was captured
\* from: over every step (assignments, set_state and delete_state on the
\* container or on a nested container, and the manager's operations) every
\* entry history[i] stays in place and materializes to the same values.
C11_SnapshotIsolated ==
    [][ \A i \in DOMAIN history :
            /\ i \in DOMAIN history'
            /\ Materialized(history'[i], heap') = Materialized(history[i], heap)
      ]_vars

\* The nested container was edited in place after a history entry had
\* captured it; the entry holds the nested value from before the edit.
C11_Witness ==
    /\ last.op = "child_set_state"
    /\ last.res = "ok"
    /\ DictHas(doc.d, "child")
    /\ DictGet(doc.d, "child").t = "obj"
    /\ \E i \in DOMAIN history :
           /\ DictHas(history[i].d, "child")
           /\ DictGet(history[i].d, "child").t = "tree"
           /\ DictGet(history[i].d, "child").v # heap[DictGet(doc.d, "child").v]

\* C12: every get_snapshot returns a fresh detached copy: over every step,
\* those included in which the client edits an object it got from
\* get_snapshot (or that object's nested container) or edits a container
\* that a restore has filled, every history entry stays in place and
\* materializes to the same values, a restore from it ends as it would have
\* ended before the step and, when it completes, gives the entry's values;
\* and what a get_snapshot returns has the values of the entry.
C12_FreshCopyEachTime ==
    [][ /\ \A i \in DOMAIN history :
               LET r == restore_memento(history[i], doc, heap, ext)
                   q == restore_memento(history'[i], doc', heap', ext')
               IN  /\ i \in DOMAIN history'
                   /\ Materialized(history'[i], heap') = Materialized(history[i], heap)
                   /\ q.err = r.err
                   /\ q.err = "ok" => Attrs(q.c, q.h) = SnapAttrs(history[i])
        /\ last'.op = "get_snapshot" =>
               SnapAttrs(HeldOf(snap', history')) = SnapAttrs(history[snap'.of])
      ]_vars

\* The client has edited the object it got from get_snapshot of the entry
\* at the cursor, and the container, which a restore from that entry had
\* filled, has been edited too: both differ from the entry.
C12_Witness ==
    /\ last.op \in {"snapshot_setattr", "snapshot_child_set_state"}
    /\ last.res = "ok"
    /\ snap.of = cursor + 1
    /\ snap.obj.state # history[snap.of]
    /\ doc.link = "copy"
    /\ Attrs(doc, heap) # SnapAttrs(history[cursor + 1])

\* C13: a checkpoint taken while the cursor is before the last entry (after
\* one or more undos) keeps every entry, those beyond the old cursor
\* included, at its index, appends the new snapshot after them, moves the
\* cursor to the new last index, and a redo that follows at once fails (the
\* code raises ValueError).
C13_CheckpointKeepsFuture ==
    [][ (last'.op = "checkpoint" /\ cursor < Len(history) - 1) =>
            /\ Len(history') = Len(history) + 1
            /\ SubSeq(history', 1, Len(history)) = history
            /\ SnapAttrs(history'[Len(history')]) = Attrs(doc, heap)
            /\ cursor' = Len(history') - 1
            /\ redo([history |-> history', cursor |-> cursor',
                     labels |-> labels', label_counter |-> label_counter'],
                    doc', heap', ext').res = "ValueError" ]_vars

\* A checkpoint was taken at cursor 0 of a two-entry history: the entry that
\* was beyond the cursor is still at index 1 and differs from the entries
\* around it.
C13_Witness ==
    /\ last.op = "checkpoint"
    /\ doc.link = "copy"
    /\ Len(history) = 3
    /\ cursor = 2
    /\ history[3] = history[1]
    /\ history[2] # history[1]

\* C14: history is append-only: over every step the history before it is a
\* prefix of the history after it (nothing is removed, reordered or
\* replaced), and undo and redo, successful or failed, change neither
\* history nor labels.
C14_AppendOnly ==
    [][ /\ Len(history') >= Len(history)
        /\ SubSeq(history', 1, Len(history)) = history
        /\ last'.op \in {"undo", "redo"} => UNCHANGED <<history, labels>> ]_vars

\* An undo has moved the cursor off an entry that differs from the one it
\* restored; that entry is still in history.
C14_Witness ==
    /\ last.op = "undo"
    /\ last.res = "ok"
    /\ cursor + 2 <= Len(history)
    /\ history[cursor + 2] # history[cursor + 1]

\* C15: caretaker.checkpoint() raises nothing and, from every state, appends
\* exactly one snapshot, equal to the container's current attributes,
\* appends exactly one label, sets the cursor to the last index of the
\* extended history and leaves the container as it is.
C15_CheckpointAppends ==
    [][ last'.op = "checkpoint" =>
            /\ last'.res = "ok"
            /\ Len(history') = Len(history) + 1
            /\ SubSeq(history', 1, Len(history)) = history
            /\ SnapAttrs(history'[Len(history')]) = Attrs(doc, heap)
            /\ Len(labels') = Len(labels) + 1
            /\ SubSeq(labels', 1, Len(labels)) = labels
            /\ cursor' = Len(history') - 1
            /\ UNCHANGED <<doc, heap>> ]_vars

\* A checkpoint has captured a container that differs from the entry before
\* the new one.
C15_Witness ==
    /\ last.op = "checkpoint"
    /\ last.res = "ok"
    /\ cursor = Len(history) - 1
    /\ Len(history) >= 2
    /\ history[Len(history)] # history[Len(history) - 1]
    /\ SnapAttrs(history[Len(history)]) = Attrs(doc, heap)

\* C16: an undo that succeeds started at cursor > 0 and leaves the cursor
\* exactly one lower; a redo that succeeds started at cursor < len(history)-1
\* and leaves it exactly one higher; after either the container's attributes
\* are those of history[cursor] at the new cursor.
C16_UndoRedoStep ==
    [][ /\ (last'.op = "undo" /\ last'.res = "ok") =>
            /\ cursor > 0
            /\ cursor' = cursor - 1
            /\ Attrs(doc', heap') = SnapAttrs(history'[cursor' + 1])
        /\ (last'.op = "redo" /\ last'.res = "ok") =>
            /\ cursor < Len(history) - 1
            /\ cursor' = cursor + 1
            /\ Attrs(doc', heap') = SnapAttrs(history'[cursor' + 1]) ]_vars

\* A redo has moved from the oldest entry to the middle one of three, whose
\* values differ from both neighbours, and the container holds them.
C16_Witness ==
    /\ last.op = "redo"
    /\ last.res = "ok"
    /\ cursor = 1
    /\ Len(history) = 3
    /\ history[2] # history[1]
    /\ history[2] # history[3]
    /\ Attrs(doc, heap) = SnapAttrs(history[2])

\* C17: right after Caretaker(container), history has exactly one entry,
\* equal to the container's attributes, the cursor is 0, there is exactly
\* one label and it carries the description "Initial State"; a first undo
\* fails (the code raises ValueError).
C17_Construction ==
    last.op = "init" =>
        /\ Len(history) = 1
        /\ SnapAttrs(history[1]) = Attrs(doc, heap)
        /\ cursor = 0
        /\ Len(labels) = 1
        /\ labels[1].desc = "Initial State"
        /\ undo(Mgr, doc, heap, ext).res = "ValueError"

\* A manager was constructed for a container that holds a nested container;
\* the first entry holds the nested values.
C17_Witness ==
    /\ last.op = "init"
    /\ DictHas(doc.d, "child")
    /\ DictGet(doc.d, "child").t = "obj"
    /\ DictGet(history[1].d, "child") = Tree(heap[DictGet(doc.d, "child").v])

\* C18: a save_to_disk(name) that succeeds appends exactly one snapshot,
\* equal to the container's current attributes, and one label, sets the
\* cursor to the new last index, leaves that same snapshot in the file
\* name.pickle of the manager's directory, returns that path and leaves the
\* container as it is.
C18_SaveSucceeds ==
    [][ (last'.op = "save_to_disk" /\ last'.res = "ok") =>
            /\ Len(history') = Len(history) + 1
            /\ SubSeq(history', 1, Len(history)) = history
            /\ SnapAttrs(history'[Len(history')]) = Attrs(doc, heap)
            /\ Len(labels') = Len(labels) + 1
            /\ SubSeq(labels', 1, Len(labels)) = labels
            /\ cursor' = Len(history') - 1
            /\ \E name \in last'.names :
                   last'.path = [dir |-> Directory, name |-> name \o ".pickle"]
            /\ disk'[last'.path].kind = "pickle"
            /\ pickle_load(disk'[last'.path]) = history'[Len(history')]
            /\ UNCHANGED <<doc, heap>> ]_vars

\* A save has succeeded for a container that differs from the entry before
\* the new one; the file at the returned path holds the new entry.
C18_Witness ==
    /\ last.op = "save_to_disk"
    /\ last.res = "ok"
    /\ last.path \in Paths
    /\ disk[last.path] = pickle_dump(history[Len(history)])
    /\ history[Len(history)] # history[Len(history) - 1]
    /\ SnapAttrs(history[Len(history)]) = Attrs(doc, heap)
    /\ Attrs(doc, heap) # {}

\* C19: a load_from_disk(path) that succeeds, from any cursor position,
\* makes the container's attributes those of the snapshot stored in the
\* file, appends that snapshot at the end of history and one label at the
\* end of labels (all earlier entries stay), and sets the cursor to the last
\* index.
C19_LoadSucceeds ==
    [][ (last'.op = "load_from_disk" /\ last'.res = "ok") =>
            /\ disk[last'.path].kind = "pickle"
            /\ Attrs(doc', heap') = SnapAttrs(pickle_load(disk[last'.path]))
            /\ history' = Append(history, pickle_load(disk[last'.path]))
            /\ Len(labels') = Len(labels) + 1
            /\ SubSeq(labels', 1, Len(labels)) = labels
            /\ cursor' = Len(history') - 1 ]_vars

\* A load has appended the stored snapshot as the third entry; it differs
\* from the oldest entry and the container now holds its values.
C19_Witness ==
    /\ last.op = "load_from_disk"
    /\ last.res = "ok"
    /\ Len(history) = 3
    /\ cursor = 2
    /\ disk[last.path] = pickle_dump(history[3])
    /\ history[3] # history[1]
    /\ Attrs(doc, heap) = SnapAttrs(history[3])

\* C20: load_from_disk of a path at which there is no regular file fails
\* with the error of the is_file() test (ValueError in the code), which
\* precedes pickle.load; a load that fails with that error or in pickle.load
\* leaves history, cursor, labels and the container's attributes unchanged.
C20_FailedLoadChangesNothing ==
    [][ last'.op = "load_from_disk" =>
            /\ disk[last'.path].kind = "absent" => last'.res = "ValueError"
            /\ last'.res \in {"ValueError", "EOFError", "UnpicklingError"} =>
                   UNCHANGED <<history, cursor, labels, doc, heap>> ]_vars

\* A load of a missing file was refused while the cursor was before the last
\* entry and the container differed from the entry at the cursor.
C20_Witness ==
    /\ last.op = "load_from_disk"
    /\ last.res = "ValueError"
    /\ disk[last.path].kind = "absent"
    /\ cursor < Len(history) - 1
    /\ Attrs(doc, heap) # SnapAttrs(history[cursor + 1])

\* A container built separately, with a manager of its own, for the
\* keyword arguments kwargs; its nested containers live on a heap of its own.
SecondPair(kwargs) ==
    LET built == Construct(kwargs, 1, [id \in ObjIds |-> FreeCell], {})
        r == Caretaker_init(Originator_init(built.kw), built.h)
    IN  [m |-> r.m, c |-> r.c, h |-> built.h]

\* C21 (as claimed): after a save_to_disk that succeeded, load_from_disk of
\* the returned path on a manager bound to a separately constructed
\* container succeeds and leaves that container with exactly the attributes
\* the saving container had; and in every state a stored file loads back
\* into the saving container, whatever happened to it since, giving exactly
\* the stored attributes.
C21_Orig ==
    /\ (last.op = "save_to_disk" /\ last.res = "ok") =>
           \A kwargs \in InitKwargs(client) :
               LET w == SecondPair(kwargs)
                   l == load_from_disk(w.m, w.c, w.h, NoRef, last.path,
                                       disk[last.path])
               IN  /\ l.res = "ok"
                   /\ Attrs(l.c, l.h) = Attrs(doc, heap)
    /\ \A f \in Paths :
           disk[f].kind = "pickle" =>
               LET l == load_from_disk(Mgr, doc, heap, ext, f, disk[f])
               IN  /\ l.res = "ok"
                   /\ Attrs(l.c, l.h) = SnapAttrs(pickle_load(disk[f]))

\* C22 (as claimed): in every reachable state every name in the readonly
\* set of the container, and of each nested container, is the name of an
\* attribute the container has.
C22_Orig ==
    /\ doc.ro \subseteq DictKeys(doc.d)
    /\ \A id \in RefsOf(doc) : heap[id].ro \subseteq DictKeys(heap[id].d)

\* The names and values a client may assign in one step.
ProbeKeys == {"a", "b", "_readonly"}

ProbeValues == {Scalar(2), Readonly(2)}

\* C23 (as claimed): in every reachable state, assigning Readonly(v) to a
\* name that is not readonly stores v under the name and adds the name to
\* the readonly set; assigning an unwrapped value never changes the readonly
\* set; assigning to a name that is readonly fails.
C23_Orig ==
    \A key \in ProbeKeys : \A value \in ProbeValues :
        LET r == Originator_setattr(doc, key, value)
        IN  /\ (value.t = "ro" /\ key \notin doc.ro) =>
                   /\ r.err = "ok"
                   /\ DictGet(r.c.d, key) = Scalar(value.v)
                   /\ r.c.ro = doc.ro \cup {key}
            /\ value.t # "ro" => r.c.ro = doc.ro
            /\ key \in doc.ro => r.err = "AttributeError"

\* C24 (as claimed): a delete_state on the managed container appends exactly
\* one history entry and one label if at least one requested name was an
\* attribute of the container, and otherwise leaves the attributes, history,
\* cursor and labels unchanged.
C24_Orig ==
    [][ last'.op = "delete_state" =>
            IF last'.names \cap DictKeys(doc.d) # {}
            THEN /\ Len(history') = Len(history) + 1
                 /\ Len(labels') = Len(labels) + 1
                 /\ SnapAttrs(history'[Len(history')]) = Attrs(doc', heap')
            ELSE UNCHANGED <<doc, heap, history, cursor, labels>> ]_vars

\* C25: an assignment, set_state or delete_state that fails on a readonly
\* name (AttributeError in the code) records nothing: history, cursor and
\* labels are the same after the failed call as before it.
C25_FailedEditRecordsNothing ==
    [][ (last'.op \in ContainerOps \cup {"child_set_state"}
             /\ last'.res = "AttributeError")
            => UNCHANGED <<history, cursor, labels, label_counter>> ]_vars

\* A set_state was refused on a readonly name while the container was still
\* linked to the manager and the history had room for a checkpoint.
C25_Witness ==
    /\ last.op = "set_state"
    /\ last.res = "AttributeError"
    /\ last.names \cap doc.ro # {}
    /\ doc.link = "manager"
    /\ Len(history) < HistBound

\* C27 (as claimed): a set_state on the nested container of the managed
\* container that succeeds is recorded in the manager as a history entry of
\* its own, holding the container with the edited nested values, with the
\* cursor on it, so that one undo takes the container back to the entry
\* before it.
C27_Orig ==
    [][ (last'.op = "child_set_state" /\ last'.res = "ok") =>
            /\ Len(history') = Len(history) + 1
            /\ cursor' = Len(history') - 1
            /\ SnapAttrs(history'[Len(history')]) = Attrs(doc', heap')
            /\ undo([history |-> history', cursor |-> cursor',
                     labels |-> labels', label_counter |-> label_counter'],
                    doc', heap', ext').res = "ok" ]_vars

\* The manager with the contents of its labels removed.
Unlabelled == [Mgr EXCEPT !.labels = <<>>]

\* Two outcomes [m, c, h, res] of a manager operation agree on everything
\* but the labels.
SameButLabels(x, y) ==
    /\ x.m.history = y.m.history
    /\ x.m.cursor = y.m.cursor
    /\ x.c = y.c
    /\ x.h = y.h
    /\ x.res = y.res

\* C29: the label at index i (from 0) carries the number i + 1 and the label
\* counter equals len(labels), after construction and after every
\* operation; and what checkpoint, undo, redo, save_to_disk and
\* load_from_disk do to history, cursor and container does not depend on
\* the contents of labels.
C29_LabelNumbers ==
    /\ label_counter = Len(labels)
    /\ \A i \in DOMAIN labels : labels[i].num = i
    /\ SameButLabels(undo(Mgr, doc, heap, ext), undo(Unlabelled, doc, heap, ext))
    /\ SameButLabels(redo(Mgr, doc, heap, ext), redo(Unlabelled, doc, heap, ext))
    /\ checkpoint(Mgr, doc, heap, "None").history
           = checkpoint(Unlabelled, doc, heap, "None").history
    /\ checkpoint(Mgr, doc, heap, "None").cursor
           = checkpoint(Unlabelled, doc, heap, "None").cursor
    /\ \A f \in Files :
           /\ save_to_disk(Mgr, doc, heap, f).m.history
                  = save_to_disk(Unlabelled, doc, heap, f).m.history
           /\ save_to_disk(Mgr, doc, heap, f).m.cursor
                  = save_to_disk(Unlabelled, doc, heap, f).m.cursor
    /\ \A f \in Paths :
           SameButLabels(load_from_disk(Mgr, doc, heap, ext, f, disk[f]),
                         load_from_disk(Unlabelled, doc, heap, ext, f, disk[f]))

\* A load has appended the third label, numbered 3, after labels of
\* construction and of a save.
C29_Witness ==
    /\ Len(labels) = 3
    /\ labels[1].desc = "Initial State"
    /\ labels[3].desc = "Loaded from Disk"
    /\ labels[3].num = 3
    /\ label_counter = 3
    /\ cursor = 2

\* C26: create_memento has no side effects: the container's attributes,
\* readonly set and caretaker link (and its nested containers), and the
\* manager's history, cursor, labels and label counter are the same after
\* the call as before it.
C26_CaptureHasNoEffect ==
    [][ last'.op = "create_memento" =>
            /\ last'.res = "ok"
            /\ UNCHANGED <<doc, heap, history, cursor, labels, label_counter>>
      ]_vars

\* The client has captured a container that is linked to the manager, has
\* a readonly name, and whose history has room for another entry.
C26_Witness ==
    /\ last.op = "create_memento"
    /\ last.names = DictKeys(doc.d)
    /\ doc.link = "manager"
    /\ doc.ro # {}
    /\ Len(history) < HistBound

\* C30: in the classic variant every save leaves the redo stack empty,
\* whatever it held before: a redo right after a save fails (IndexError,
\* "No Saved States to redo") and leaves the originator's attributes and
\* both stacks as the save left them.
C30_SaveClearsRedo ==
    [][ last'.op = "classic_save" =>
            /\ redo_stack' = <<>>
            /\ LET after == [o |-> originator', us |-> undo_stack',
                             rs |-> redo_stack']
                   r == classic_redo(after)
               IN  /\ r.res = "IndexError"
                   /\ r.o = after.o
                   /\ r.us = after.us
                   /\ r.rs = after.rs ]_vars

\* A save has been made on top of an older one whose snapshot differs, with
\* the redo stack empty.
C30_Witness ==
    /\ last.op = "classic_save"
    /\ redo_stack = <<>>
    /\ Len(undo_stack) = 2
    /\ undo_stack[2] # undo_stack[1]
    /\ undo_stack[2] = originator

\* C28: when every call is made under one lock, (1) whenever the lock is
\* free the cursor is an index of history and labels is as long as history,
\* (2) no two threads are inside a call at once, and (3) every call
\* returns with the state and the result it gives when it runs alone from
\* the state it found, so a run is a sequence of whole operations.
C28_GuardedIsSerial ==
    /\ [](mutex = "free" =>
             /\ 0 <= cursor
             /\ cursor <= Len(history) - 1
             /\ Len(labels) = Len(history))
    /\ [](\A t \in Threads : frames[t].pc # "idle" => mutex = t)
    /\ [][ \A t \in Threads :
               (frames[t].pc = "return" /\ frames'[t].pc = "idle") =>
                   LET r == AtomicResult(frames[t])
                   IN  /\ Mgr = r.m
                       /\ doc = r.c
                       /\ heap = r.h
                       /\ frames[t].res = r.res ]_vars

\* A thread holds the lock in the middle of a checkpoint (history already
\* longer than labels) that it entered after an undo had returned.
C28_Witness ==
    /\ mutex \in Threads
    /\ Len(labels) # Len(history)
    /\ last.op = "undo"
    /\ last.res = "ok"
    /\ \E t \in Threads : frames[t].pc = "idle"

\* C31: for any interleaving of threads calling the same singleton class,
\* at most one instance is ever constructed and every call returns that
\* instance.
C31_Orig ==
    /\ constructed <= 1
    /\ \A t \in Threads : calls[t].rets \subseteq {singleton}

\* C32: undo, redo and load_from_disk leave the container's link to its
\* manager unchanged: after each of them the container is linked to the
\* Caretaker that performed the operation, not to a copy of it.
C32_Orig ==
    [][ (last'.op \in RestoreOps /\ last'.res = "ok") =>
            doc'.link = "manager" ]_vars

\* C33: history navigation keeps readonly attributes: after undo, redo or
\* load_from_disk every name that was in the readonly set is still in it,
\* and its attribute is still there with the same value.
C33_Orig ==
    [][ last'.op \in RestoreOps =>
            \A k \in doc.ro :
                DictHas(doc.d, k) =>
                    /\ k \in doc'.ro
                    /\ DictHas(doc'.d, k)
                    /\ DictGet(doc'.d, k) = DictGet(doc.d, k) ]_vars

\* C34: whenever an operation appends a checkpoint while the container holds
\* the attributes of history[p], p the cursor, an undo made right after it
\* succeeds and restores the attributes of history[p], also when p was not
\* the last index.
C34_Orig ==
    [][ ( /\ Len(history') = Len(history) + 1
          /\ last'.res = "ok"
          /\ Attrs(doc, heap) = SnapAttrs(history[cursor + 1]) ) =>
            LET r == undo([history |-> history', cursor |-> cursor',
                           labels |-> labels',
                           label_counter |-> label_counter'],
                          doc', heap', ext')
            IN  /\ r.res = "ok"
                /\ Attrs(r.c, r.h) = SnapAttrs(history[cursor + 1]) ]_vars

\* C35: without a lock, whenever two overlapping undo calls have both
\* started at cursor 1 and both passed the `_current_pos == 0` test, then
\* once both have reached their return the cursor is -1, below the range
\* of C1, and at least one of them has restored from history[-1], the
\* newest snapshot, instead of history[0].
C35_UnguardedUndoRace ==
    \A t, u \in Threads :
        ( /\ t # u
          /\ frames[t].op = "undo" /\ frames[u].op = "undo"
          /\ frames[t].pc = "return" /\ frames[u].pc = "return"
          /\ frames[t].res # "ValueError" /\ frames[u].res # "ValueError"
          /\ frames[t].entry.m.cursor = 1
          /\ frames[u].entry.m.cursor = 1 ) =>
            /\ cursor = -1
            /\ \/ (frames[t].res = "ok"
                    /\ frames[t].memento = history[Len(history)])
               \/ (frames[u].res = "ok"
                    /\ frames[u].memento = history[Len(history)])

\* Both undo calls have run from cursor 1 to their return: the cursor is
\* -1 and the container holds the newest of three snapshots, which differs
\* from the oldest one.
C35_Witness ==
    /\ \A t \in Threads :
           /\ frames[t].op = "undo"
           /\ frames[t].pc = "return"
           /\ frames[t].res = "ok"
           /\ frames[t].entry.m.cursor = 1
    /\ cursor < 0
    /\ Len(history) = 3
    /\ Attrs(doc, heap) = SnapAttrs(history[3])
    /\ SnapAttrs(history[3]) # SnapAttrs(history[1])

\* C36: a capture does work bounded by the size of the attribute tree: the
\* deep copy made for any checkpoint builds no more Originator objects than
\* the tree it captures has.
C36_Orig ==
    \A i \in DOMAIN history : Copied(history, i) <= TreeObjs(history[i])

\* C37: in the classic variant a successful undo leaves the originator with
\* exactly the attributes and the readonly set of the snapshot on top of
\* the undo stack, a successful redo with exactly those of the snapshot on
\* top of the redo stack (the state before the undo), and neither changes
\* len(undo_stack) + len(redo_stack).
C37_Orig ==
    [][ /\ (last'.op = "classic_undo" /\ last'.res = "ok") =>
            /\ SnapAttrs(originator') = SnapAttrs(undo_stack[Len(undo_stack)])
            /\ originator'.ro = undo_stack[Len(undo_stack)].ro
            /\ Len(undo_stack') + Len(redo_stack')
                   = Len(undo_stack) + Len(redo_stack)
        /\ (last'.op = "classic_redo" /\ last'.res = "ok") =>
            /\ SnapAttrs(originator') = SnapAttrs(redo_stack[Len(redo_stack)])
            /\ originator'.ro = redo_stack[Len(redo_stack)].ro
            /\ Len(undo_stack') + Len(redo_stack')
                   = Len(undo_stack) + Len(redo_stack) ]_vars

====
